---------------------------- MODULE Spec2Model ----------------------------
(***************************************************************************)
(* A model of build_tools/ucicd_resource_allocator.py: the allocator that  *)
(* reconciles the self-hosted runners registered to a repository against   *)
(* a configuration (plan, then execute), and its release mode.             *)
(*                                                                         *)
(* Strings that the program takes apart (runner names, prefixes) are       *)
(* sequences of one-character strings; the others are TLA+ strings.        *)
(***************************************************************************)
EXTENDS Integers, Sequences, FiniteSets, TLC

(***************************************************************************)
(* Bounds of the model.                                                    *)
(***************************************************************************)
\* max_count of a requirement ranges over 0..MaxCount
MaxCount == 2
\* number of runs of the program in succession that the model follows
MaxRuns == 2
\* length of the owner and repository names --repository is drawn from
MaxNameLen == 2
\* size of a page of the directory's listing (100 in the source)
per_page == 2

(***************************************************************************)
(* Names.                                                                  *)
(***************************************************************************)
\* "CS-UCICD-DT155" and "CS-UCICD-DT29", the hostnames of mock_pool
DT155 == <<"C","S","-","U","C","I","C","D","-","D","T","1","5","5">>
DT29 == <<"C","S","-","U","C","I","C","D","-","D","T","2","9">>
\* "CI-1", a runner that is not a pool machine
CI1 == <<"C","I","-","1">>
\* the default of --prefix, "CS-UCICD"
DefaultPrefix == <<"C","S","-","U","C","I","C","D">>
\* the prefix "CI-"
PrefixCI == <<"C","I","-">>

T4x == "gpu_navi4x"
T3x == "gpu_navi3x"
Platforms == {"linux", "windows"}

(***************************************************************************)
(* Helpers for Python lists.                                               *)
(***************************************************************************)
\* x in s, for a list s
InList(x, s) == \E i \in DOMAIN s : s[i] = x

\* any(...) taken as true for an empty list of tags
AnyTagInOrNoTag(tags, labels) ==
    tags = <<>> \/ \E i \in DOMAIN tags : InList(tags[i], labels)
\* any(tag in labels for tag in tags)
AnyTagIn(tags, labels) == \E i \in DOMAIN tags : InList(tags[i], labels)

\* s without the slice
TakeAll(s, n) == s
\* s[:n]
Take(s, n) == IF n <= 0 THEN <<>> ELSE SubSeq(s, 1, IF n < Len(s) THEN n ELSE Len(s))

\* name.startswith(p)
StartsWith(name, p) == Len(p) <= Len(name) /\ SubSeq(name, 1, Len(p)) = p

\* {s[i] : i}
Range(s) == {s[i] : i \in DOMAIN s}

\* s.endswith(suf)
EndsWith(s, suf) ==
    Len(suf) <= Len(s) /\ SubSeq(s, Len(s) - Len(suf) + 1, Len(s)) = suf

\* s.rstrip(chars): the characters of chars are removed from the end of s, one
\* by one, for as long as the last character is one of them
RECURSIVE RStrip(_, _)
RStrip(s, chars) ==
    IF s # <<>> /\ s[Len(s)] \in chars THEN RStrip(SubSeq(s, 1, Len(s) - 1), chars) ELSE s

\* s.count(ch)
CountOf(s, ch) == Cardinality({i \in DOMAIN s : s[i] = ch})

(***************************************************************************)
(* normalize_repository.                                                   *)
(***************************************************************************)
Slash == <<"/">>
DotGit == <<".", "g", "i", "t">>
HttpsPrefix ==
    <<"h","t","t","p","s",":","/","/","g","i","t","h","u","b",".","c","o","m","/">>
HttpPrefix ==
    <<"h","t","t","p",":","/","/","g","i","t","h","u","b",".","c","o","m","/">>
SshPrefix ==
    <<"g","i","t","@","g","i","t","h","u","b",".","c","o","m",":">>

\* What normalize_repository gives when it raises ValueError
InvalidRepository == <<>>

\* re.match(r'^[^/]+/[^/]+$', s)
MatchesOwnerRepo(s) ==
    /\ CountOf(s, "/") = 1
    /\ s[1] # "/"
    /\ s[Len(s)] # "/"

\* The two groups of ([^/]+)/([^/]+?)(?:\.git)?$ on a string that matches
\* ^[^/]+/[^/]+$, joined by "/": the second group is the shortest, so a final
\* ".git" goes to the optional group when something is left before it
OwnerAndName(s) ==
    LET at == CHOOSE i \in DOMAIN s : s[i] = "/"
        tail == SubSeq(s, at + 1, Len(s))
    IN  IF EndsWith(tail, DotGit) /\ Len(tail) > Len(DotGit)
        THEN SubSeq(s, 1, Len(s) - Len(DotGit))
        ELSE s

\* lines 130-131: repository.rstrip('.git')
PlainForm(s) == RStrip(s, Range(DotGit))

normalize_repository(s) ==
    IF s # <<>> /\ MatchesOwnerRepo(s)
    THEN PlainForm(s)
    ELSE LET web == IF StartsWith(s, HttpsPrefix) THEN SubSeq(s, Len(HttpsPrefix) + 1, Len(s))
                    ELSE IF StartsWith(s, HttpPrefix) THEN SubSeq(s, Len(HttpPrefix) + 1, Len(s))
                    ELSE <<>>
             \* the final /? of the pattern
             path == IF EndsWith(web, Slash) THEN SubSeq(web, 1, Len(web) - 1) ELSE web
             ssh == IF StartsWith(s, SshPrefix) THEN SubSeq(s, Len(SshPrefix) + 1, Len(s))
                    ELSE <<>>
         IN  IF path # <<>> /\ MatchesOwnerRepo(path) THEN OwnerAndName(path)
             ELSE IF ssh # <<>> /\ MatchesOwnerRepo(ssh) THEN OwnerAndName(ssh)
             ELSE InvalidRepository

\* The forms of --repository, for an owner and a repository name
RepositoryForms == {"plain", "https", "https_git", "ssh_git", "bare"}
RepositoryText(form, owner, name) ==
    CASE form = "plain" -> owner \o Slash \o name
      [] form = "https" -> HttpsPrefix \o owner \o Slash \o name
      [] form = "https_git" -> HttpsPrefix \o owner \o Slash \o name \o DotGit
      [] form = "ssh_git" -> SshPrefix \o owner \o Slash \o name \o DotGit
      [] OTHER -> name
RepositoryArg(form, owner, name) ==
    [form |-> form, owner |-> owner, name |-> name,
     text |-> RepositoryText(form, owner, name)]

\* The names: the words of 1..MaxNameLen letters over "r" and "t"
NameLetters == {"r", "t"}
Names == UNION { [1..n -> NameLetters] : n \in 1..MaxNameLen }
Owners == { <<"o">>, <<"a", "t">> }
RepositoryArgs ==
    { RepositoryArg(f, o, n) : f \in RepositoryForms, o \in Owners, n \in Names }

(***************************************************************************)
(* The mock pool and the pool lookup.                                      *)
(***************************************************************************)
PoolMachine(h, t, p, s) == [hostname |-> h, tags |-> t, platform |-> p, status |-> s]

\* mock_pool as the source has it
mock_pool ==
    << PoolMachine(DT155, <<T4x>>, "linux", "available"),
       PoolMachine(DT29, <<T3x>>, "windows", "available") >>

\* The pools the model draws from: the first machine is the mock pool's, the
\* second varies (mock_pool is one of them).
PoolChoices ==
    { << PoolMachine(DT155, <<T4x>>, "linux", "available"), m >> :
        m \in { PoolMachine(DT29, <<T3x>>, "windows", "available"),
                PoolMachine(DT29, <<T4x>>, "linux", "available"),
                PoolMachine(DT29, <<T4x>>, "linux", "maintenance"),
                PoolMachine(DT29, <<T4x>>, "windows", "available") } }

get_available_machines_from_pool(thePool, tags, platform) ==
    SelectSeq(thePool, LAMBDA machine :
        /\ machine.platform = platform
        /\ AnyTagIn(tags, machine.tags)
        /\ machine.status = "available")

(***************************************************************************)
(* The registration directory (the runners GitHub lists for the            *)
(* repository) and the parsing of its listing.                             *)
(***************************************************************************)
Runner(i, n, o, b, l) == [id |-> i, name |-> n, os |-> o, busy |-> b, labels |-> l]

\* RegisteredRunner(...) built from one entry of the listing
ParseRunnerDropBusy(entry) == Runner(entry.id, entry.name, entry.os, FALSE, entry.labels)
ParseRunner(entry) == Runner(entry.id, entry.name, entry.os, entry.busy, entry.labels)

\* GET .../actions/runners with per_page and page: the directory answers
\* with the runners of that page, none past the last
Page(dir, page) ==
    SubSeq(dir, (page - 1) * per_page + 1,
           IF page * per_page < Len(dir) THEN page * per_page ELSE Len(dir))

\* The test that ends the loop over the pages, ending it after any page
LastPageWhatever(runners) == TRUE
\* lines 588 and 650: the loop over the pages ends at a page shorter than
\* per_page
LastPage(runners) == Len(runners) < per_page

\* The pages the loop asks for, from the given page on
RECURSIVE PagesRequested(_, _)
PagesRequested(dir, page) ==
    IF LastPage(Page(dir, page)) THEN <<page>>
    ELSE <<page>> \o PagesRequested(dir, page + 1)

\* lines 614-654: the runners of the pages from the given page on
RECURSIVE RegisteredRunnersFrom(_, _)
RegisteredRunnersFrom(dir, page) ==
    LET runners == Page(dir, page)
        parsed == [i \in DOMAIN runners |-> ParseRunner(runners[i])]
    IN  IF LastPage(runners) THEN parsed
        ELSE parsed \o RegisteredRunnersFrom(dir, page + 1)

get_all_registered_runners(dir) == RegisteredRunnersFrom(dir, 1)

\* lines 560-592: the names of the runners of the pages from the given page on
RECURSIVE RunnerNamesFrom(_, _)
RunnerNamesFrom(dir, page) ==
    LET runners == Page(dir, page)
        names == {runners[i].name : i \in DOMAIN runners}
    IN  IF LastPage(runners) THEN names
        ELSE names \cup RunnerNamesFrom(dir, page + 1)

\* lines 541-592 returning no name
get_all_registered_runner_names_none(dir) == {}
\* lines 541-592: the names of the listing
get_all_registered_runner_names(dir) == RunnerNamesFrom(dir, 1)

platform_to_os(platform) ==
    CASE platform = "linux" -> "Linux"
      [] platform = "windows" -> "Windows"
      [] OTHER -> platform

\* lines 714-720 without the test of the operating system
MatchingRunnersAnyOs(dir, maas_tags, platform) ==
    SelectSeq(dir, LAMBDA runner : AnyTagIn(maas_tags, runner.labels))
\* The runners get_current_runners counts
MatchingRunners(dir, maas_tags, platform) ==
    SelectSeq(dir, LAMBDA runner :
        AnyTagIn(maas_tags, runner.labels) /\ runner.os = platform_to_os(platform))

get_current_runners(dir, maas_tags, platform) ==
    LET m == MatchingRunners(dir, maas_tags, platform)
    IN  [ connected_count |-> Len(m),
          busy_count |-> Len(SelectSeq(m, LAMBDA r : r.busy)),
          idle_count |-> Len(SelectSeq(m, LAMBDA r : ~r.busy)) ]

\* The directory without the runners of the given name / id
WithoutName(dir, n) == SelectSeq(dir, LAMBDA r : r.name # n)
WithoutId(dir, i) == SelectSeq(dir, LAMBDA r : r.id # i)

\* config.sh --name <hostname> --labels <labels> --replace: the machine
\* becomes a registered runner under its hostname, replacing a runner of
\* that name
DirectoryRegister(dir, newId, machine, labels) ==
    Append(WithoutName(dir, machine.hostname),
           Runner(newId, machine.hostname, platform_to_os(machine.platform), FALSE, labels))

(***************************************************************************)
(* The ends of the directory the program calls, by the last part of their  *)
(* address.                                                                *)
(***************************************************************************)
\* .../actions/runners (lines 558, 612, 678)
RunnersUrl == <<"runners">>
\* .../actions/runners/remove-token (line 241)
RemovalTokenUrl == <<"remove-token">>
\* generate_runner_registration_token asking for a removal token
RegistrationTokenUrlRemoves == <<"remove-token">>
\* .../actions/runners/registration-token (line 209)
RegistrationTokenUrl == <<"registration-token">>

(***************************************************************************)
(* Answers of the remote calls.  "500" stands for every status the code    *)
(* does not name; "neterr" for a requests.exceptions.RequestException.     *)
(***************************************************************************)
ListAnswers == {"200", "401", "404", "500", "neterr"}
TokenAnswers == {"201", "401", "404", "500", "neterr"}
DeleteFaults == {"none", "401", "500", "neterr"}
\* The statuses that raise ValueError
IsValueErrorBut401(a) == a \in {"404", "500"}
IsValueError(a) == a \in {"401", "404", "500"}

(***************************************************************************)
(* State.                                                                  *)
(***************************************************************************)
VARIABLES
    \* the command line and the configuration file
    mode, force, prefix, hostnames, hostnameGiven, config, requirements, pool,
    repository_arg,
    \* the world outside: the SSH password variables, the directory
    envPass, directory, nextId,
    \* the program
    pc, run, runners, actions, idx, machines_to_allocate, mi, act_success,
    success_count, failure_count, pool_exhausted_count, exitCode, exitWhy,
    repository, registered_runner_names,
    \* history of the run
    busyAtListing, survivors, unregCmd, apiDeleted,
    results, registered, attempted, regOk, authAt, callAfterAuth, seen,
    calls, listedIds

inputs == <<mode, force, prefix, hostnames, hostnameGiven, config, requirements, pool,
            repository_arg>>
world == <<envPass, directory, nextId>>
counters == <<success_count, failure_count, pool_exhausted_count>>
releaseHist == <<busyAtListing, survivors, unregCmd, apiDeleted>>
\* results: one record for each action the executor has finished
\* registered: the hostnames this run has registered with the directory
\* attempted, regOk: the machines of the action under way that register_runner
\*   was called for, and those it returned True for
\* authAt: where this run was answered 401; callAfterAuth: a remote call was
\*   made after that
\* seen: how each remote end has answered so far, over all the runs
reconcileHist == <<results, registered, attempted, regOk>>
callHist == <<authAt, callAfterAuth, seen>>
\* calls: the remote calls of this run, in the order they were made
\* listedIds: the ids of the runners in the listing the release read
vars == <<inputs, world, pc, run, runners, actions, idx, machines_to_allocate, mi,
          act_success, counters, exitCode, exitWhy, repository, registered_runner_names,
          releaseHist, reconcileHist, callHist, calls, listedIds>>

(***************************************************************************)
(* Inputs.                                                                 *)
(***************************************************************************)
\* The runners a directory may hold before the program runs
InitialRunners(busySet) ==
    << Runner(1, DT155, "Linux", 1 \in busySet, <<"linux", T4x>>),
       Runner(2, DT29, "Windows", 2 \in busySet, <<"windows", T3x>>),
       Runner(3, CI1, "Linux", 3 \in busySet, <<"self-hosted", T4x>>) >>

InitialDirectories(ids, busySets) ==
    { SelectSeq(InitialRunners(b), LAMBDA r : r.id \in present) :
        present \in SUBSET ids, b \in busySets }

\* --hostname, split at the commas, the blank pieces dropped: the list is
\* empty for a --hostname of commas and blanks only, e.g. ","
HostnameChoices == { <<>>, <<DT155>>, <<CI1, DT29>> }
PrefixChoices == { DefaultPrefix, PrefixCI, <<>> }

\* One requirement of the configuration file (load_config), labelled by its place
RunnerRequirement(l, c, t, p) ==
    [label |-> l, max_count |-> c, maas_tags |-> t, platform |-> p]

ReqLabels == <<"runner-a", "runner-b">>

\* The tag lists and platforms the requirements are drawn from
ReqShapes ==
    { <<(<<T4x>>), "linux">>, <<(<<T4x, T3x>>), "windows">>, <<(<<>>), "linux">> }

RequirementsOfLen(n) ==
    { [i \in 1..n |-> RunnerRequirement(ReqLabels[i], c[i], sh[i][1], sh[i][2])] :
        c \in [1..n -> 0..MaxCount], sh \in [1..n -> ReqShapes] }

RequirementLists == UNION { RequirementsOfLen(n) : n \in 0..Len(ReqLabels) }

\* The state of --config: not given, no such file, not JSON, or a readable file
\* ("incomplete": JSON with a runner that has no "label")
ConfigStates == {"absent", "missing", "malformed", "incomplete", "ok"}

\* --repository in the runs of the allocator: a repository in the plain form,
\* or a word that is no repository
MainRepositoryArgs ==
    { RepositoryArg("plain", <<"o">>, <<"r">>), RepositoryArg("bare", <<"o">>, <<"r">>) }

InitProgram ==
    /\ pc = "start"
    /\ run = 1
    /\ runners = <<>>
    /\ actions = <<>>
    /\ idx = 0
    /\ machines_to_allocate = <<>>
    /\ mi = 0
    /\ act_success = 0
    /\ success_count = 0
    /\ failure_count = 0
    /\ pool_exhausted_count = 0
    /\ exitCode = -1
    /\ exitWhy = "running"
    /\ busyAtListing = {}
    /\ survivors = {}
    /\ unregCmd = {}
    /\ apiDeleted = {}
    /\ results = <<>>
    /\ registered = {}
    /\ attempted = {}
    /\ regOk = {}
    /\ authAt = {}
    /\ callAfterAuth = FALSE
    /\ repository = InvalidRepository
    /\ registered_runner_names = {}
    /\ calls = <<>>
    /\ listedIds = {}

InitRelease ==
    /\ mode = "release"
    /\ force \in BOOLEAN
    /\ \/ hostnameGiven = FALSE /\ hostnames = <<>> /\ prefix \in PrefixChoices
       \/ hostnameGiven = TRUE /\ hostnames \in HostnameChoices /\ prefix = DefaultPrefix
    /\ config = "absent"
    /\ requirements = <<>>
    /\ pool = mock_pool
    /\ directory \in InitialDirectories({1, 2, 3}, SUBSET {1, 2, 3})

InitReconcile ==
    /\ mode = "reconcile"
    /\ force = FALSE
    /\ hostnames = <<>>
    /\ hostnameGiven = FALSE
    /\ prefix = DefaultPrefix
    /\ config \in ConfigStates
    /\ requirements \in (IF config = "ok" THEN RequirementLists ELSE {<<>>})
    /\ pool \in PoolChoices
    /\ directory \in InitialDirectories({1, 3}, {{3}})

Init ==
    /\ InitRelease \/ InitReconcile
    /\ repository_arg \in MainRepositoryArgs
    /\ envPass = [p \in Platforms |-> "unread"]
    /\ nextId = 4
    /\ seen = {}
    /\ InitProgram

(***************************************************************************)
(* Leaving the program.                                                    *)
(***************************************************************************)
Exit(code, why) ==
    /\ pc' = "done"
    /\ exitCode' = code
    /\ exitWhy' = why

\* An exception nothing catches: the interpreter prints it and exits 1
Uncaught == Exit(1, "uncaught")

\* A remote call as the history keeps it: what was called ("status",
\* "pool", "listing", "token", "ssh", "delete"), for which action or runner
\* (0: for none), on which host or at which end of the directory, and the
\* answer; the history keeps an answer
\* that the program takes for a failure, other than 401 to a listing or a
\* token request, as "refused"
Answered(kind, answer) ==
    IF kind = "delete"
    THEN IF answer \in {"204", "404", "neterr"} THEN answer ELSE "refused"
    ELSE IF answer \in {"404", "500", "neterr"} THEN "refused" ELSE answer
Call(kind, at, host, answer) ==
    [kind |-> kind, at |-> at, host |-> host, answer |-> Answered(kind, answer)]

\* os.environ.get of an SSH password: unset or set, the same at every read
PassOutcomes(platform) ==
    IF envPass[platform] = "unread" THEN {"set", "unset"} ELSE {envPass[platform]}

(***************************************************************************)
(* Release mode: release_all_runners and the part of main that calls it.   *)
(***************************************************************************)
\* main, lines 1225-1229
MainReleaseExit(failures) ==
    IF failures > 0 THEN Exit(1, "failures") ELSE Exit(0, "ok")

\* lines 1037-1058
FilterRunners(all, theHostnames, thePrefix) ==
    IF theHostnames # <<>>
    THEN SelectSeq(all, LAMBDA r : r.name \in Range(theHostnames))
    ELSE IF thePrefix # <<>>
         THEN SelectSeq(all, LAMBDA r : StartsWith(r.name, thePrefix))
         ELSE all

\* line 1066
BusyRunners(rs) == SelectSeq(rs, LAMBDA r : r.busy)

\* lines 1031-1073 without the returns on an empty list
ReleasePreludeKeepsEmpty(all, theHostnames, thePrefix, theForce) ==
    LET filtered == FilterRunners(all, theHostnames, thePrefix)
        busy_runners == BusyRunners(filtered)
    IN  IF busy_runners # <<>> /\ ~theForce
        THEN [proceed |-> FALSE, runners |-> filtered, failures |-> Len(busy_runners)]
        ELSE [proceed |-> TRUE, runners |-> filtered, failures |-> 0]
\* lines 1031-1073: what release_all_runners does with the listing before it
\* asks for the removal token
ReleasePrelude(all, theHostnames, thePrefix, theForce) ==
    LET filtered == FilterRunners(all, theHostnames, thePrefix)
        busy_runners == BusyRunners(filtered)
    IN  IF all = <<>> \/ filtered = <<>>
        THEN [proceed |-> FALSE, runners |-> filtered, failures |-> 0]
        ELSE IF busy_runners # <<>> /\ ~theForce
             THEN [proceed |-> FALSE, runners |-> filtered, failures |-> Len(busy_runners)]
             ELSE [proceed |-> TRUE, runners |-> filtered, failures |-> 0]

Lower(s) ==
    CASE s = "Linux" -> "linux"
      [] s = "Windows" -> "windows"
      [] OTHER -> s

\* lines 936-943
UnregisterPlatform(os) ==
    IF Lower(os) = "linux" THEN "linux"
    ELSE IF Lower(os) = "windows" THEN "windows"
    ELSE "linux"

\* delete_runner_from_github: the status the DELETE returns, and the result
DeleteStatus(dir, runner_id, fault) ==
    IF fault # "none" THEN fault
    ELSE IF \E i \in DOMAIN dir : dir[i].id = runner_id THEN "204" ELSE "404"

\* lines 905-917 with 404 taken for a failure
delete_runner_from_github_404_fails(status) == status = "204"
\* lines 905-917
delete_runner_from_github(status) ==
    CASE status = "204" -> TRUE
      [] status = "401" -> FALSE
      [] status = "404" -> TRUE
      [] OTHER -> FALSE

\* main, lines 1201-1206
NormalizeRepository ==
    /\ pc = "start"
    /\ repository' = normalize_repository(repository_arg.text)
    /\ IF repository' = InvalidRepository
       THEN Exit(1, "repository")
       ELSE pc' = "normalized" /\ UNCHANGED <<exitCode, exitWhy>>
    /\ UNCHANGED <<inputs, world, run, runners, actions, idx, machines_to_allocate, mi,
                   act_success, counters, registered_runner_names, releaseHist,
                   reconcileHist, callHist, calls, listedIds>>

\* main, lines 1231-1245, taking a file that is not JSON for a configuration
\* without runners
ConfigOutcomeLoadsMalformed(cfg) ==
    CASE cfg \in {"ok", "malformed"} -> "loaded"
      [] cfg = "incomplete" -> "raised"
      [] OTHER -> "exit"
\* main, lines 1231-1245: the configuration is loaded, or main exits 1
\* (no --config, no such file, not JSON), or load_config raises what
\* nothing catches
ConfigOutcome(cfg) ==
    CASE cfg = "ok" -> "loaded"
      [] cfg = "incomplete" -> "raised"
      [] OTHER -> "exit"

MainStart ==
    /\ pc = "normalized"
    /\ IF mode = "release"
       THEN pc' = "release_fetch" /\ UNCHANGED <<exitCode, exitWhy>>
       ELSE IF ConfigOutcome(config) = "loaded"
            THEN /\ pc' = (IF requirements = <<>> THEN "summary" ELSE "plan")
                 /\ UNCHANGED <<exitCode, exitWhy>>
            ELSE IF ConfigOutcome(config) = "raised" THEN Uncaught
            ELSE Exit(1, "config")
    /\ idx' = 1
    /\ UNCHANGED <<inputs, world, run, runners, actions, machines_to_allocate, mi,
                   act_success, counters, repository, registered_runner_names,
                   releaseHist, reconcileHist, callHist, calls, listedIds>>

ReleaseFetch ==
    /\ pc = "release_fetch"
    /\ \E answer \in ListAnswers :
       /\ calls' = Append(calls, Call("listing", 0, RunnersUrl, answer))
       /\ IF answer = "neterr"
         THEN /\ Uncaught
              /\ UNCHANGED <<runners, counters, busyAtListing, survivors, listedIds>>
         ELSE IF IsValueError(answer)
         THEN /\ success_count' = 0
              /\ failure_count' = 1
              /\ MainReleaseExit(1)
              /\ UNCHANGED <<runners, pool_exhausted_count, busyAtListing, survivors,
                             listedIds>>
         ELSE LET p == ReleasePrelude(get_all_registered_runners(directory),
                                      hostnames, prefix, force)
              IN  /\ runners' = p.runners
                  /\ listedIds' = {directory[i].id : i \in DOMAIN directory}
                  /\ busyAtListing' = {directory[i].id : i \in {j \in DOMAIN directory : directory[j].busy}}
                  /\ survivors' = {p.runners[i].id : i \in DOMAIN p.runners}
                  /\ IF p.proceed
                     THEN /\ pc' = "release_token"
                          /\ UNCHANGED <<counters, exitCode, exitWhy>>
                     ELSE /\ success_count' = 0
                          /\ failure_count' = p.failures
                          /\ MainReleaseExit(p.failures)
                          /\ UNCHANGED pool_exhausted_count
    /\ UNCHANGED <<inputs, world, run, actions, idx, machines_to_allocate, mi,
                   act_success, unregCmd, apiDeleted, reconcileHist, callHist,
                   repository, registered_runner_names>>

ReleaseToken ==
    /\ pc = "release_token"
    /\ \E answer \in TokenAnswers :
       /\ calls' = Append(calls, Call("token", 0, RemovalTokenUrl, answer))
       /\ IF answer = "neterr"
         THEN Uncaught /\ UNCHANGED counters
         ELSE IF IsValueError(answer)
         THEN /\ success_count' = 0
              /\ failure_count' = Len(runners)
              /\ MainReleaseExit(Len(runners))
              /\ UNCHANGED pool_exhausted_count
         ELSE /\ pc' = "release_each"
              /\ UNCHANGED <<counters, exitCode, exitWhy>>
    /\ idx' = 1
    /\ UNCHANGED <<inputs, world, run, runners, actions, machines_to_allocate, mi,
                   act_success, releaseHist, reconcileHist, callHist,
                   repository, registered_runner_names, listedIds>>

\* lines 1088-1113 taking the result of the delete whether or not --force
\* is set
ReleaseOutcomeWhateverForce(runner, theForce, pw, remove_ok, status) ==
    IF runner.busy /\ ~theForce THEN "skipped"
    ELSE IF pw = "unset" THEN "raised"
    ELSE IF remove_ok THEN "released"
    ELSE IF status = "neterr" THEN "raised"
    ELSE IF delete_runner_from_github(status) THEN "deleted" ELSE "failed"
\* lines 1088-1113 for one runner: what becomes of it
\*   "skipped" | "released" | "deleted" | "failed" | "raised"
ReleaseOutcome(runner, theForce, pw, remove_ok, status) ==
    IF runner.busy /\ ~theForce THEN "skipped"
    ELSE IF pw = "unset" THEN "raised"
    ELSE IF remove_ok THEN "released"
    ELSE IF theForce
         THEN IF status = "neterr" THEN "raised"
              ELSE IF delete_runner_from_github(status) THEN "deleted" ELSE "failed"
         ELSE "failed"

ReleaseOne ==
    /\ pc = "release_each"
    /\ LET runner == runners[idx]
           platform == UnregisterPlatform(runner.os)
       IN \E pw \in PassOutcomes(platform), remove_ok \in BOOLEAN, fault \in DeleteFaults :
            LET status == DeleteStatus(directory, runner.id, fault)
                out == ReleaseOutcome(runner, force, pw, remove_ok, status)
                ssh == out \in {"released", "deleted", "failed", "raised"} /\ pw = "set"
                del == ssh /\ ~remove_ok /\ force
                s == success_count + (IF out \in {"released", "deleted"} THEN 1 ELSE 0)
                f == failure_count + (IF out \in {"skipped", "failed"} THEN 1 ELSE 0)
            IN  /\ envPass' = (IF out = "skipped" THEN envPass
                               ELSE [envPass EXCEPT ![platform] = pw])
                /\ unregCmd' = (IF ssh THEN unregCmd \cup {runner.id} ELSE unregCmd)
                /\ calls' = calls
                      \o (IF ssh THEN <<Call("ssh", idx, runner.name,
                                             IF remove_ok THEN "ok" ELSE "failed")>>
                          ELSE <<>>)
                      \o (IF del THEN <<Call("delete", idx, runner.name, status)>>
                          ELSE <<>>)
                /\ apiDeleted' = (IF del THEN apiDeleted \cup {runner.id} ELSE apiDeleted)
                /\ directory' = (IF out = "released" THEN WithoutName(directory, runner.name)
                                 ELSE IF del /\ status = "204" THEN WithoutId(directory, runner.id)
                                 ELSE directory)
                /\ success_count' = s
                /\ failure_count' = f
                /\ IF out = "raised" THEN Uncaught /\ idx' = idx
                   ELSE IF idx = Len(runners) THEN MainReleaseExit(f) /\ idx' = idx
                   ELSE idx' = idx + 1 /\ UNCHANGED <<pc, exitCode, exitWhy>>
    /\ UNCHANGED <<inputs, nextId, run, runners, actions, machines_to_allocate, mi,
                   act_success, pool_exhausted_count, busyAtListing, survivors,
                   reconcileHist, callHist, repository, registered_runner_names,
                   listedIds>>

\* While a release is under way a job starts or ends on a runner
JobChange ==
    /\ mode = "release"
    /\ pc \in {"release_token", "release_each"}
    /\ \E i \in DOMAIN directory :
         directory' = [directory EXCEPT ![i].busy = ~directory[i].busy]
    /\ UNCHANGED <<inputs, envPass, nextId, pc, run, runners, actions, idx,
                   machines_to_allocate, mi, act_success, counters, exitCode, exitWhy,
                   releaseHist, reconcileHist, callHist, repository,
                   registered_runner_names, calls, listedIds>>

\* While a release is under way somebody else removes a runner
ExternalRemoval ==
    /\ mode = "release"
    /\ pc \in {"release_token", "release_each"}
    /\ \E i \in DOMAIN directory : directory' = WithoutId(directory, directory[i].id)
    /\ UNCHANGED <<inputs, envPass, nextId, pc, run, runners, actions, idx,
                   machines_to_allocate, mi, act_success, counters, exitCode, exitWhy,
                   releaseHist, reconcileHist, callHist, repository,
                   registered_runner_names, calls, listedIds>>

(***************************************************************************)
(* Reconciliation: calculate_allocation_actions, execute_actions,          *)
(* allocate_runners, register_runner and the rest of main.                 *)
(***************************************************************************)
AllocationAction(l, a, c, why, req) ==
    [label |-> l, action |-> a, count |-> c, reason |-> why, requirement |-> req]

\* lines 756-774, as the variant of the planner with a remove action has them
PlanActionWithRemove(req, status) ==
    IF status.connected_count < req.max_count
    THEN AllocationAction(req.label, "add", req.max_count - status.connected_count,
                          <<"Below target", status.connected_count, req.max_count>>, req)
    ELSE IF status.connected_count > req.max_count
    THEN AllocationAction(req.label, "remove", status.connected_count - req.max_count,
                          <<"Above maximum", status.connected_count, req.max_count>>, req)
    ELSE AllocationAction(req.label, "none", 0,
                          <<"OK", status.connected_count, req.max_count>>, req)

\* lines 756-774
PlanAction(req, status) ==
    IF status.connected_count < req.max_count
    THEN AllocationAction(req.label, "add", req.max_count - status.connected_count,
                          <<"Below target", status.connected_count, req.max_count>>, req)
    ELSE AllocationAction(req.label, "none", 0,
                          <<"OK", status.connected_count, req.max_count>>, req)

\* lines 749-776: the list of actions with the action of one more requirement,
\* put in front
PlannedActionsInFront(acts, req, status) == <<PlanAction(req, status)>> \o acts
\* lines 749-776: the list of actions with the action of one more requirement
PlannedActions(acts, req, status) == Append(acts, PlanAction(req, status))

\* How a remote end has answered, remembered over the runs: once an end has
\* answered both ways the record is only that the world has changed
Changed == {<<"world", "changed">>}
Note(key, ok) ==
    LET mine == <<key, IF ok THEN "ok" ELSE "failed">>
        other == <<key, IF ok THEN "failed" ELSE "ok">>
    IN  IF seen = Changed \/ other \in seen THEN Changed ELSE seen \cup {mine}

\* A call to the directory: what the history keeps of it
DirectoryCall(before, point, key, answer, okAnswer) ==
    /\ calls' = Append(before, Call(point, IF pc \in {"execute", "token"} THEN idx ELSE 0,
                                    key, answer))
    /\ authAt' = (IF answer = "401" THEN authAt \cup {point} ELSE authAt)
    /\ callAfterAuth' = (callAfterAuth \/ authAt # {})
    /\ seen' = Note(key, answer = okAnswer)

\* The loop of lines 751-774 left after any requirement
PlanningOverAtOnce(i, n) == TRUE
\* The loop of lines 751-774 is over after the last requirement
PlanningOver(i, n) == i = n

\* calculate_allocation_actions for the requirement at idx, and main, lines
\* 1254-1263
PlanOne ==
    /\ pc = "plan"
    /\ \E answer \in ListAnswers :
         /\ DirectoryCall(calls, "status", RunnersUrl, answer, "200")
         /\ IF answer = "200"
            THEN LET req == requirements[idx]
                     status == get_current_runners(directory, req.maas_tags, req.platform)
                 IN  /\ actions' = PlannedActions(actions, req, status)
                     /\ IF PlanningOver(idx, Len(requirements))
                        THEN pc' = "execute" /\ idx' = 1
                        ELSE pc' = "plan" /\ idx' = idx + 1
                     /\ UNCHANGED <<exitCode, exitWhy>>
            ELSE /\ Exit(1, "status_error")
                 /\ UNCHANGED <<actions, idx>>
    /\ UNCHANGED <<inputs, world, run, runners, machines_to_allocate, mi, act_success,
                   counters, releaseHist, reconcileHist, repository,
                   registered_runner_names, listedIds>>

\* execute_actions, lines 1149-1154: the counters after an action that
\* allocate_runners answered (ok, reason)
ExecuteTallyExhaustedFails(ok, reason) ==
    IF ok /\ reason # "pool_exhausted"
    THEN <<success_count + 1, failure_count, pool_exhausted_count>>
    ELSE <<success_count, failure_count + 1, pool_exhausted_count>>
ExecuteTally(ok, reason) ==
    IF reason = "pool_exhausted"
    THEN <<success_count, failure_count, pool_exhausted_count + 1>>
    ELSE IF ok
    THEN <<success_count + 1, failure_count, pool_exhausted_count>>
    ELSE <<success_count, failure_count + 1, pool_exhausted_count>>

\* execute_actions, lines 1140-1156, counting an action that is no add as a
\* success
ActionTallyCountsEvery(kind, ok, reason) == ExecuteTally(ok, reason)
\* execute_actions, lines 1140-1156: only an add action is counted
ActionTally(kind, ok, reason) ==
    IF kind = "add" THEN ExecuteTally(ok, reason)
    ELSE <<success_count, failure_count, pool_exhausted_count>>

\* The record the history keeps of a finished action: the answer of
\* allocate_runners, the step the action ended in ("none", "lookup",
\* "listing", "filter", "token" or "register"), whether it ended on a 401,
\* the number of machines the pool lookup gave, the names of the listing the
\* action read (none when it read none), the machines chosen, those
\* register_runner was called for and those it returned True for
Result(action, ok, reason, stage, rejected, candidates, listed, targeted, tried, done) ==
    [kind |-> action.action, ok |-> ok, reason |-> reason, stage |-> stage,
     rejected |-> rejected, candidates |-> candidates, listed |-> listed,
     targeted |-> targeted, attempted |-> tried, regOk |-> done]

\* The action at idx is over: the counters, and on to the next action or to
\* the summary
ActionOver(ok, reason, stage, rejected, candidates, listed, targeted, tried, done) ==
    /\ results' = Append(results, Result(actions[idx], ok, reason, stage, rejected,
                                         candidates, listed, targeted, tried, done))
    /\ LET t == ActionTally(actions[idx].action, ok, reason)
       IN  /\ success_count' = t[1]
           /\ failure_count' = t[2]
           /\ pool_exhausted_count' = t[3]
    /\ IF idx = Len(actions)
       THEN pc' = "summary" /\ idx' = 1
       ELSE pc' = "execute" /\ idx' = idx + 1
    /\ attempted' = {}
    /\ regOk' = {}
    /\ UNCHANGED <<exitCode, exitWhy>>

\* lines 825-828 without the test of the name
UnregisteredMachinesUnfiltered(available_machines, names) ==
    available_machines
\* lines 825-828
UnregisteredMachines(available_machines, names) ==
    SelectSeq(available_machines, LAMBDA m : m.hostname \notin names)

Hostnames(ms) == [i \in DOMAIN ms |-> ms[i].hostname]

\* execute_actions for the action at idx, and allocate_runners up to the
\* choice of the machines (lines 1140-1156, 805-847)
ExecuteAction ==
    /\ pc = "execute"
    /\ LET action == actions[idx]
           requirement == action.requirement
           available_machines ==
               get_available_machines_from_pool(pool, requirement.maas_tags,
                                                requirement.platform)
           n == Len(available_machines)
           looked_up == Append(calls, Call("pool", idx, <<>>, "ok"))
       IN  IF action.action # "add"
           THEN /\ ActionOver(TRUE, "skipped", "none", FALSE, 0, {}, <<>>, {}, {})
                /\ UNCHANGED <<machines_to_allocate, callHist, calls, registered_runner_names>>
           ELSE IF available_machines = <<>>
           THEN /\ ActionOver(TRUE, "pool_exhausted", "lookup", FALSE, 0, {}, <<>>, {}, {})
                /\ calls' = looked_up
                /\ UNCHANGED <<machines_to_allocate, callHist, registered_runner_names>>
           ELSE \E answer \in ListAnswers :
                  /\ DirectoryCall(looked_up, "listing", RunnersUrl, answer, "200")
                  /\ registered_runner_names' =
                         (IF answer = "200" THEN get_all_registered_runner_names(directory)
                          ELSE registered_runner_names)
                  /\ IF answer = "neterr"
                     THEN /\ Uncaught
                          /\ UNCHANGED <<machines_to_allocate, idx, counters, results,
                                         attempted, regOk>>
                     ELSE IF IsValueError(answer)
                     THEN /\ ActionOver(FALSE, "error", "listing", answer = "401", n, {}, <<>>, {}, {})
                          /\ UNCHANGED machines_to_allocate
                     ELSE LET unregistered_machines ==
                                  UnregisteredMachines(available_machines,
                                      registered_runner_names')
                          IN  IF unregistered_machines = <<>>
                              THEN /\ ActionOver(TRUE, "pool_exhausted", "filter", FALSE, n,
                                              registered_runner_names', <<>>, {}, {})
                                   /\ UNCHANGED machines_to_allocate
                              ELSE /\ machines_to_allocate' =
                                          Take(unregistered_machines, action.count)
                                   /\ pc' = "token"
                                   /\ UNCHANGED <<idx, counters, results, attempted, regOk,
                                                  exitCode, exitWhy>>
    /\ mi' = 0
    /\ act_success' = 0
    /\ UNCHANGED <<inputs, world, run, runners, actions, releaseHist, registered,
                   repository, listedIds>>

\* lines 849-856 going on to the registrations whatever the answer
TokenOutcomeAlwaysIssued(answer) == "issued"
\* generate_runner_registration_token and lines 849-856: the token is issued,
\* or the request is refused (ValueError, which allocate_runners catches), or
\* the request raises what nothing catches
TokenOutcome(answer) ==
    IF answer = "neterr" THEN "raised"
    ELSE IF IsValueError(answer) THEN "refused"
    ELSE "issued"

\* allocate_runners, lines 849-856
AllocateToken ==
    /\ pc = "token"
    /\ \E answer \in TokenAnswers :
         /\ DirectoryCall(calls, "token", RegistrationTokenUrl, answer, "201")
         /\ IF TokenOutcome(answer) = "raised"
            THEN /\ Uncaught
                 /\ UNCHANGED <<idx, counters, results, attempted, regOk, mi>>
            ELSE IF TokenOutcome(answer) = "refused"
            THEN /\ ActionOver(FALSE, "error", "token", answer = "401",
                               Len(machines_to_allocate), registered_runner_names,
                               Hostnames(machines_to_allocate), {}, {})
                 /\ UNCHANGED mi
            ELSE /\ pc' = "register"
                 /\ mi' = 1
                 /\ UNCHANGED <<idx, counters, results, attempted, regOk, exitCode, exitWhy>>
    /\ UNCHANGED <<inputs, world, run, runners, actions, machines_to_allocate, act_success,
                   releaseHist, registered, repository, registered_runner_names,
                   listedIds>>

\* register_runner_on_linux, lines 391-416: the result, by the results of the
\* configuration, service install and service start commands
register_runner_on_linux(configured, installed, started) == configured

\* register_runner_on_windows, lines 468-518: has_svc is the answer of the
\* test for svc.cmd; without svc.cmd the install and start are those of the
\* scheduled task
register_runner_on_windows(configured, has_svc, installed, started) ==
    IF ~configured THEN FALSE
    ELSE IF has_svc THEN installed /\ started
    ELSE installed

\* register_runner, lines 532-538
register_runner(platform, configured, has_svc, installed, started) ==
    IF platform = "linux" THEN register_runner_on_linux(configured, installed, started)
    ELSE IF platform = "windows"
    THEN register_runner_on_windows(configured, has_svc, installed, started)
    ELSE FALSE

\* lines 874-879 answering a partial allocation as a failure
AllocateResultPartialFails(successes, n) ==
    IF successes = 0 THEN <<FALSE, "error">>
    ELSE IF successes < n THEN <<FALSE, "partial">>
    ELSE <<TRUE, "success">>
\* allocate_runners, lines 874-879
AllocateResult(successes, n) ==
    IF successes = 0 THEN <<FALSE, "error">>
    ELSE IF successes < n THEN <<TRUE, "partial">>
    ELSE <<TRUE, "success">>

\* The loop of lines 865-870 stopping at the first machine that fails
RegisterLoopOverAtFailure(i, n, ok) == i = n \/ ~ok
\* The loop of lines 865-870 is over after the last machine
RegisterLoopOver(i, n, ok) == i = n

\* allocate_runners, lines 858-879: one turn of the loop, and the result
\* after the last
RegisterOne ==
    /\ pc = "register"
    /\ LET machine == machines_to_allocate[mi]
           requirement == actions[idx].requirement
           labels == <<requirement.platform>> \o requirement.maas_tags
           supported == machine.platform \in Platforms
       IN \E pw \in (IF supported THEN PassOutcomes(machine.platform) ELSE {"set"}),
             configured \in BOOLEAN, has_svc \in BOOLEAN,
             installed \in BOOLEAN, started \in BOOLEAN :
            LET ok == register_runner(machine.platform, configured, has_svc,
                                      installed, started)
                is_configured == supported /\ pw = "set" /\ configured
                tried == attempted \cup {machine.hostname}
                done == IF ok THEN regOk \cup {machine.hostname} ELSE regOk
                successes == act_success + (IF ok THEN 1 ELSE 0)
                n == Len(machines_to_allocate)
            IN  /\ envPass' = (IF supported THEN [envPass EXCEPT ![machine.platform] = pw]
                               ELSE envPass)
                /\ directory' = (IF is_configured
                                 THEN DirectoryRegister(directory, nextId, machine, labels)
                                 ELSE directory)
                /\ nextId' = (IF is_configured THEN nextId + 1 ELSE nextId)
                /\ registered' = (IF is_configured THEN registered \cup {machine.hostname}
                                  ELSE registered)
                /\ callAfterAuth' = (callAfterAuth \/ (authAt # {} /\ pw = "set"))
                /\ calls' = (IF supported /\ pw = "set"
                             THEN Append(calls, Call("ssh", idx, machine.hostname,
                                                     IF ok THEN "registered"
                                                     ELSE IF is_configured THEN "configured"
                                                     ELSE "failed"))
                             ELSE calls)
                /\ IF pw = "unset"
                   THEN /\ Uncaught
                        /\ seen' = seen
                        /\ UNCHANGED <<idx, counters, results, attempted, regOk, mi,
                                       act_success>>
                   ELSE /\ seen' = Note(machine.hostname, is_configured)
                        /\ IF RegisterLoopOver(mi, n, ok)
                           THEN LET r == AllocateResult(successes, n)
                                IN  /\ ActionOver(r[1], r[2], "register", FALSE, n,
                                                  registered_runner_names,
                                                  Hostnames(machines_to_allocate), tried, done)
                                    /\ UNCHANGED <<mi, act_success>>
                           ELSE /\ mi' = mi + 1
                                /\ act_success' = successes
                                /\ attempted' = tried
                                /\ regOk' = done
                                /\ UNCHANGED <<pc, idx, counters, results, exitCode, exitWhy>>
    /\ UNCHANGED <<inputs, run, runners, actions, machines_to_allocate, releaseHist, authAt,
                   repository, registered_runner_names, listedIds>>

\* main, lines 1312-1327, without the test of the failures
MainExitAlwaysZero(failures) == Exit(0, "ok")
\* main, lines 1312-1327
MainExit(failures) ==
    IF failures > 0 THEN Exit(1, "failures") ELSE Exit(0, "ok")

\* main, lines 1269-1327: the status of every requirement is read again for
\* the summary (k of these calls are answered 200; a call answered otherwise
\* raises, and nothing catches it), then the exit code
Summarise ==
    /\ pc = "summary"
    /\ \E k \in 0..Len(requirements), answer \in ListAnswers \ {"200"} :
       /\ calls' = calls \o [i \in 1..k |-> Call("status", 0, RunnersUrl, "200")]
                      \o (IF k = Len(requirements) THEN <<>>
                          ELSE <<Call("status", 0, RunnersUrl, answer)>>)
       /\ IF k = Len(requirements)
         THEN /\ MainExit(failure_count)
              /\ authAt' = authAt
              /\ callAfterAuth' = (callAfterAuth \/ (authAt # {} /\ k > 0))
              /\ seen' = (IF k > 0 THEN Note(RunnersUrl, TRUE) ELSE seen)
         ELSE /\ Uncaught
              /\ authAt' = (IF answer = "401" THEN authAt \cup {"status"} ELSE authAt)
              /\ callAfterAuth' = (callAfterAuth \/ authAt # {})
              /\ seen' = (IF k > 0 THEN Changed ELSE Note(RunnersUrl, FALSE))
    /\ UNCHANGED <<inputs, world, run, runners, actions, idx, machines_to_allocate, mi,
                   act_success, counters, releaseHist, reconcileHist, repository,
                   registered_runner_names, listedIds>>

\* The program is run again, on the same command line and configuration
Rerun ==
    /\ pc = "done"
    /\ mode = "reconcile"
    /\ run < MaxRuns
    /\ run' = run + 1
    /\ pc' = "start"
    /\ runners' = <<>>
    /\ actions' = <<>>
    /\ idx' = 0
    /\ machines_to_allocate' = <<>>
    /\ mi' = 0
    /\ act_success' = 0
    /\ success_count' = 0
    /\ failure_count' = 0
    /\ pool_exhausted_count' = 0
    /\ exitCode' = -1
    /\ exitWhy' = "running"
    /\ results' = <<>>
    /\ registered' = {}
    /\ attempted' = {}
    /\ regOk' = {}
    /\ authAt' = {}
    /\ callAfterAuth' = FALSE
    /\ repository' = InvalidRepository
    /\ registered_runner_names' = {}
    /\ calls' = <<>>
    /\ UNCHANGED <<inputs, world, releaseHist, seen, listedIds>>

Next ==
    \/ NormalizeRepository
    \/ MainStart
    \/ ReleaseFetch
    \/ ReleaseToken
    \/ ReleaseOne
    \/ JobChange
    \/ ExternalRemoval
    \/ PlanOne
    \/ ExecuteAction
    \/ AllocateToken
    \/ RegisterOne
    \/ Summarise
    \/ Rerun

Spec == Init /\ [][Next]_vars

(***************************************************************************)
(* normalize_repository on its own: main up to line 1206, for every form   *)
(* of --repository.                                                        *)
(***************************************************************************)
InitNormalize ==
    /\ repository_arg \in RepositoryArgs
    /\ mode = "reconcile"
    /\ force = FALSE
    /\ prefix = DefaultPrefix
    /\ hostnames = <<>>
    /\ hostnameGiven = FALSE
    /\ config = "ok"
    /\ requirements = <<>>
    /\ pool = mock_pool
    /\ directory = <<>>
    /\ envPass = [p \in Platforms |-> "unread"]
    /\ nextId = 4
    /\ seen = {}
    /\ InitProgram

NextNormalize == NormalizeRepository

SpecNormalize == InitNormalize /\ [][NextNormalize]_vars

(***************************************************************************)
(* What the properties below are stated with.                              *)
(***************************************************************************)
\* The runners of the directory that carry one of the tags and run the
\* platform's operating system, counted as a set
OsOfPlatform(platform, os) ==
    \/ platform = "linux" /\ os = "Linux"
    \/ platform = "windows" /\ os = "Windows"
ConnectedNow(req) ==
    Cardinality({ j \in DOMAIN directory :
                    /\ Range(req.maas_tags) \cap Range(directory[j].labels) # {}
                    /\ OsOfPlatform(req.platform, directory[j].os) })

\* The directory is still the one the planner read: this run has registered
\* nothing yet
AsPlanned == mode = "reconcile" /\ registered = {}

\* No machine of the pool is a candidate for the requirement
NoCandidate(req) ==
    ~ \E k \in DOMAIN pool :
        /\ pool[k].status = "available"
        /\ pool[k].platform = req.platform
        /\ Range(pool[k].tags) \cap Range(req.maas_tags) # {}

\* Every remote end has answered the same way at every call of every run
EnvStable == seen # Changed

\* The planning is over
Planned == pc \in {"execute", "token", "register", "summary"}

ResultReasons(rs) == {results[i].reason : i \in rs}

(***************************************************************************)
(* Properties.                                                             *)
(***************************************************************************)

\* C1: in release mode without --force, a runner that the directory showed
\* busy when the release listed it is never unregistered on its machine and
\* never deleted from the directory by the release, whatever the filter.
C1_BusyNeverReleasedWithoutForce ==
    (mode = "release" /\ ~force) =>
        \A id \in busyAtListing : id \notin unregCmd /\ id \notin apiDeleted

\* A release without --force that met a busy runner among those the filter
\* kept, and is over
C1_Witness ==
    /\ mode = "release" /\ ~force /\ pc = "done"
    /\ busyAtListing \cap survivors # {}
    /\ failure_count > 0

\* C2 (as claimed): a release without --force whose filtered set holds busy
\* and idle runners skips each busy runner, counts it as a failure, still
\* releases each idle runner, and exits 1.
C2_IdleStillReleased ==
    ( /\ mode = "release" /\ ~force /\ pc = "done"
      /\ survivors \cap busyAtListing # {}
      /\ survivors \ busyAtListing # {} )
    => /\ \A id \in survivors \ busyAtListing : id \in unregCmd
       /\ failure_count >= Cardinality(survivors \cap busyAtListing)
       /\ exitCode = 1

\* C3: when the reconciliation is run again and every remote end (directory,
\* token issue, each pool machine) answers as it did in the run before, the
\* second run registers no machine.
C3_SecondRunRegistersNothing ==
    (mode = "reconcile" /\ run >= 2 /\ EnvStable) => registered = {}

\* A second run that is over, after a first run that registered a machine,
\* and that found every candidate of an add action already registered
C3_Witness ==
    /\ mode = "reconcile" /\ run = 2 /\ pc = "done" /\ EnvStable /\ exitCode = 0
    /\ \E j \in DOMAIN directory : directory[j].id >= 4
    /\ \E i \in DOMAIN results :
         results[i].reason = "pool_exhausted" /\ results[i].stage = "filter"

C5_RemoveAboveMax ==
    AsPlanned =>
        \A i \in DOMAIN actions :
            LET c == ConnectedNow(requirements[i])
                target == requirements[i].max_count
            IN  c > target => /\ actions[i].action = "remove"
                              /\ actions[i].count = c - target

\* C6: the planner returns one action for each requirement, in the order of
\* the requirements, each with the label of its requirement and the
\* requirement itself; two requirements with the same tags and platform are
\* planned on the same observed count, each against its own max_count.
C6_OneActionPerRequirement ==
    mode = "reconcile" =>
        /\ Len(actions) <= Len(requirements)
        /\ pc = "plan" => Len(actions) = idx - 1
        /\ Planned => Len(actions) = Len(requirements)
        /\ \A i \in DOMAIN actions :
             /\ actions[i].label = requirements[i].label
             /\ actions[i].requirement = requirements[i]
        /\ \A i, j \in DOMAIN actions :
             ( /\ requirements[i].maas_tags = requirements[j].maas_tags
               /\ requirements[i].platform = requirements[j].platform )
             => /\ actions[i].reason[2] = actions[j].reason[2]
                /\ actions[i].action = "add" =>
                     actions[i].count = requirements[i].max_count - actions[j].reason[2]

\* A plan of two add actions for two requirements of the same tags
C6_Witness ==
    /\ mode = "reconcile" /\ pc = "execute" /\ idx = 1
    /\ Len(actions) = 2
    /\ requirements[1].maas_tags = requirements[2].maas_tags
    /\ requirements[1].maas_tags # <<>>
    /\ requirements[1].max_count # requirements[2].max_count
    /\ actions[1].action = "add" /\ actions[2].action = "add"

\* C7: an add action that got its token calls register_runner for every
\* machine it chose, one after the other, whatever the earlier ones
\* answered; it ends "success" when all of them registered, "partial" when
\* some did and some did not, "error" when none did.
C7_EveryMachineTried ==
    /\ pc = "register" =>
         attempted = {machines_to_allocate[k].hostname : k \in 1..(mi - 1)}
    /\ \A i \in DOMAIN results :
         LET r == results[i]
             all == Range(r.targeted)
         IN  r.stage = "register" =>
               /\ r.attempted = all
               /\ r.regOk \subseteq all
               /\ r.reason = "success" <=> r.regOk = all
               /\ r.reason = "partial" <=> (r.regOk # {} /\ r.regOk # all)
               /\ r.reason = "error" <=> r.regOk = {}
               /\ r.ok <=> r.regOk # {}

\* An add action of two machines whose first machine failed and whose second
\* registered
C7_Witness ==
    \E i \in DOMAIN results :
        /\ results[i].stage = "register"
        /\ Len(results[i].targeted) = 2
        /\ results[i].targeted[1] \notin results[i].regOk
        /\ results[i].targeted[2] \in results[i].regOk
        /\ results[i].reason = "partial"

\* C8: an add action for which the pool lookup finds no machine ends
\* pool_exhausted, which the executor counts apart from the failures; a run
\* whose actions all end skipped, success or pool_exhausted, and that no
\* exception ends, exits 0.
C8_PoolExhaustedIsNotFailure ==
    mode = "reconcile" =>
        /\ \A i \in DOMAIN results :
             (results[i].kind = "add" /\ NoCandidate(requirements[i]))
             => /\ results[i].reason = "pool_exhausted"
                /\ results[i].ok
                /\ results[i].attempted = {}
        /\ pool_exhausted_count =
             Cardinality({i \in DOMAIN results : results[i].reason = "pool_exhausted"})
        /\ failure_count =
             Cardinality({i \in DOMAIN results : results[i].reason = "error"})
        /\ ( /\ pc = "done" /\ exitWhy # "uncaught"
             /\ Len(results) = Len(requirements)
             /\ ResultReasons(DOMAIN results) \subseteq {"skipped", "success", "pool_exhausted"}
             /\ "pool_exhausted" \in ResultReasons(DOMAIN results) )
           => exitCode = 0

\* A run that is over with exit code 0 and an action for which the pool had
\* no machine
C8_Witness ==
    /\ mode = "reconcile" /\ pc = "done" /\ exitCode = 0
    /\ \E i \in DOMAIN results :
         /\ results[i].kind = "add" /\ NoCandidate(requirements[i])
         /\ results[i].reason = "pool_exhausted"
    /\ pool_exhausted_count > 0

\* C9: the program exits 0 or 1: 1 when an action failed (reconciliation) or
\* when a release without --force met a busy runner among those the filter
\* kept or failed to release a runner; 0 when it ran to its end without a
\* failure.
C9_ExitCode ==
    pc = "done" =>
        /\ exitCode \in {0, 1}
        /\ (mode = "reconcile" /\ \E i \in DOMAIN results : ~results[i].ok) => exitCode = 1
        /\ (mode = "release" /\ ~force /\ survivors \cap busyAtListing # {}) => exitCode = 1
        /\ failure_count > 0 => exitCode = 1
        /\ ( /\ mode = "reconcile" /\ config = "ok" /\ exitWhy \in {"ok", "failures"}
             /\ Len(results) = Len(requirements)
             /\ \A i \in DOMAIN results : results[i].ok ) => exitCode = 0
        /\ (mode = "release" /\ exitWhy \in {"ok", "failures"} /\ failure_count = 0)
              => exitCode = 0

\* A reconciliation that is over with exit code 1 after one action that
\* failed and one that succeeded
C9_Witness ==
    /\ mode = "reconcile" /\ pc = "done" /\ exitCode = 1 /\ exitWhy = "failures"
    /\ \E i \in DOMAIN results : ~results[i].ok
    /\ \E i \in DOMAIN results : results[i].reason = "success"

\* C10 (as claimed): once the directory has answered 401 to a reconciliation
\* run - to a status check, to the listing of the registered runners or to
\* the request for a token - the run executes no further action, makes no
\* further remote call and ends with a non-zero exit code.
C10_AuthRejectionAbortsRun ==
    (mode = "reconcile" /\ authAt # {}) =>
        /\ pc \notin {"execute", "token", "register"}
        /\ pc = "done" => exitCode = 1
        /\ \A i \in DOMAIN results : results[i].rejected => i = Len(results)
        /\ ~callAfterAuth

\* C10 (amended): a 401 to a status check ends the run at once with exit
\* code 1, and during the planning before any action is executed; a 401 to
\* the listing of the registered runners or to the request for a token ends
\* only the action under way, as "error" and without a registration command;
\* a run that was answered 401 ends with exit code 1.
C10_AuthRejectionFailsRun ==
    mode = "reconcile" =>
        /\ "status" \in authAt => pc = "done" /\ exitCode = 1
        /\ ("status" \in authAt /\ Len(actions) < Len(requirements)) =>
              results = <<>> /\ registered = {} /\ ~callAfterAuth
        /\ \A i \in DOMAIN results :
             results[i].rejected => /\ results[i].reason = "error"
                                    /\ ~results[i].ok
                                    /\ results[i].attempted = {}
        /\ (authAt \cap {"listing", "token"} # {}) => failure_count > 0
        /\ (authAt # {} /\ pc = "done") => exitCode = 1

\* A run whose first action was answered 401 at the listing and whose
\* second action went on to register a machine
C10_Witness ==
    /\ mode = "reconcile" /\ callAfterAuth
    /\ Len(results) = 2
    /\ results[1].rejected /\ results[1].stage = "listing"
    /\ results[2].stage = "register" /\ results[2].regOk # {}
    /\ pc = "done" /\ exitCode = 1

(***************************************************************************)
(* What the properties below are stated with (the remote calls).           *)
(***************************************************************************)
\* The places of the history's calls of one kind
CallsOfKind(kind) == {j \in DOMAIN calls : calls[j].kind = kind}
\* The calls made for the action (or, in a release, the runner) at i
CallsAt(i) == SelectSeq(calls, LAMBDA c : c.at = i)
\* The name of the runner with the id, in the directories of the model
NameOfId(id) == InitialRunners({})[id].name
\* The release has read the listing
Listed == \E j \in CallsOfKind("listing") : calls[j].answer = "200"

\* C11: a reconciliation whose configuration file is missing or does not
\* parse (or that has no --config) makes no directory call, no pool lookup
\* and no remote-shell command, executes nothing, and exits 1.
C11_ConfigErrorBeforeAnyCall ==
    (mode = "reconcile" /\ config # "ok") =>
        /\ calls = <<>>
        /\ actions = <<>> /\ results = <<>> /\ registered = {}
        /\ pc \in {"start", "normalized", "done"}
        /\ pc = "done" => exitCode = 1

\* A reconciliation with a configuration file that is not JSON, over
C11_Witness ==
    /\ mode = "reconcile" /\ config = "malformed"
    /\ pc = "done" /\ exitCode = 1 /\ exitWhy = "config"
    /\ calls = <<>>

\* C12: deleting a record that the directory does not hold returns success:
\* for every directory and id, the delete succeeds, a second delete of the
\* same id succeeds too (on 404) and leaves the directory as the first left
\* it; a release counts a runner whose delete was answered 404 as released.
C12_DeleteIdempotent ==
    /\ \A id \in 1..nextId :
         LET once == WithoutId(directory, id)
             twice == WithoutId(once, id)
         IN  /\ delete_runner_from_github(DeleteStatus(directory, id, "none"))
             /\ DeleteStatus(once, id, "none") = "404"
             /\ delete_runner_from_github(DeleteStatus(once, id, "none"))
             /\ twice = once
    /\ mode = "release" =>
         success_count =
             Cardinality({j \in CallsOfKind("ssh") : calls[j].answer = "ok"})
             + Cardinality({j \in CallsOfKind("delete") : calls[j].answer \in {"204", "404"}})

\* A forced release that deleted a runner somebody else had removed already,
\* and ended without a failure
C12_Witness ==
    /\ mode = "release" /\ force /\ pc = "done" /\ exitCode = 0
    /\ \E j \in CallsOfKind("delete") :
         /\ calls[j].answer = "404"
         /\ ~ \E i \in DOMAIN directory : directory[i].name = calls[j].host
    /\ success_count > 0

\* C13 (as claimed): a release given --hostname selects the runners whose
\* name is one of the hostnames, whatever the prefix; a release without it
\* selects the runners whose name starts with the prefix; no other runner is
\* unregistered, deleted or counted.
C13_AllowListBeforePrefix ==
    (mode = "release" /\ Listed) =>
        /\ survivors =
             (IF hostnameGiven
              THEN {id \in listedIds : NameOfId(id) \in Range(hostnames)}
              ELSE {id \in listedIds : StartsWith(NameOfId(id), prefix)})
        /\ unregCmd \cup apiDeleted \subseteq survivors
        /\ success_count + failure_count <= Cardinality(survivors)

\* C16 (as claimed): the owner/repo, https://github.com/owner/repo,
\* https://github.com/owner/repo.git and git@github.com:owner/repo.git forms
\* of a repository are all normalised to owner/repo.
C16_FormsNormaliseAlike ==
    (pc # "start" /\ repository_arg.form \in {"plain", "https", "https_git", "ssh_git"}) =>
        repository = repository_arg.owner \o Slash \o repository_arg.name

C15_BusyRereadBeforeRelease ==
    [][ (mode = "release" /\ ~force) =>
          \A id \in unregCmd' \ unregCmd :
              ~ \E i \in DOMAIN directory : directory[i].id = id /\ directory[i].busy ]_vars

\* C17: an action of kind none ends skipped: the executor makes no pool
\* lookup, no directory call, no token request and no registration for it,
\* and counts it neither as a success nor as a failure (the three counters
\* count the add actions only).
C17_NoneIsSkipped ==
    mode = "reconcile" =>
        /\ \A i \in DOMAIN results :
             results[i].kind # "add" =>
                /\ results[i].kind = "none"
                /\ results[i].reason = "skipped" /\ results[i].stage = "none"
                /\ CallsAt(i) = <<>>
                /\ results[i].attempted = {}
        /\ success_count + failure_count + pool_exhausted_count =
              Cardinality({i \in DOMAIN results : results[i].kind = "add"})
        /\ pc \in {"token", "register"} => actions[idx].action = "add"

\* A run that is over, with an action of kind none and an add action that
\* succeeded
C17_Witness ==
    /\ mode = "reconcile" /\ pc = "done" /\ exitCode = 0
    /\ Len(results) = 2
    /\ results[1].kind = "none" /\ results[2].reason = "success"
    /\ success_count = 1 /\ failure_count = 0

\* C18: the calls of an add action are, in this order, the pool lookup, the
\* listing of the registered runners, the token request and the registration
\* commands; no registration command goes to a machine whose name is in that
\* listing, and no machine that a registration command of the run has
\* configured gets another registration command in the run.
C18_FilterOnFreshListing ==
    mode = "reconcile" =>
        /\ \A i \in DOMAIN actions :
             LET cs == CallsAt(i)
             IN  \A k \in DOMAIN cs :
                    cs[k].kind = (CASE k = 1 -> "pool" [] k = 2 -> "listing"
                                    [] k = 3 -> "token" [] OTHER -> "ssh")
        /\ \A i \in DOMAIN results :
             /\ results[i].attempted \cap results[i].listed = {}
             /\ Range(results[i].targeted) \cap results[i].listed = {}
        /\ pc \in {"token", "register"} =>
             /\ attempted \cap registered_runner_names = {}
             /\ Range(Hostnames(machines_to_allocate)) \cap registered_runner_names = {}
        /\ \A j, k \in CallsOfKind("ssh") :
             (j < k /\ calls[j].answer \in {"registered", "configured"})
             => calls[k].host # calls[j].host

\* A run whose first action registered a machine and whose second action,
\* for which the pool gave that machine again, read a listing with its name
\* and registered another machine
C18_Witness ==
    /\ mode = "reconcile" /\ Len(results) = 2
    /\ results[1].regOk # {}
    /\ results[1].regOk \subseteq results[2].listed
    /\ results[1].regOk \subseteq
         Range(Hostnames(get_available_machines_from_pool(
                   pool, requirements[2].maas_tags, requirements[2].platform)))
    /\ results[2].stage = "register"
    /\ results[2].attempted # {}

\* C19: an add action whose token request fails issues no registration
\* command; when the directory refuses the token the action ends as an error
\* and is counted as a failure.
C19_TokenFailureFailsAction ==
    mode = "reconcile" =>
        /\ \A j \in CallsOfKind("token") :
             calls[j].answer # "201" =>
                /\ \A k \in CallsOfKind("ssh") : calls[k].at # calls[j].at
                /\ \/ /\ calls[j].at \in DOMAIN results
                      /\ results[calls[j].at].stage = "token"
                   \/ /\ pc = "done" /\ exitWhy = "uncaught"
                      /\ Len(results) = calls[j].at - 1
        /\ \A i \in DOMAIN results :
             results[i].stage = "token" =>
                /\ ~results[i].ok /\ results[i].reason = "error"
                /\ results[i].attempted = {} /\ results[i].regOk = {}
                /\ results[i].targeted # <<>>
                /\ failure_count > 0

\* A run that is over with exit code 1 after an add action that had chosen
\* its machines and was refused the token
C19_Witness ==
    /\ mode = "reconcile" /\ pc = "done" /\ exitCode = 1
    /\ \E i \in DOMAIN results :
         /\ results[i].stage = "token" /\ ~results[i].rejected
         /\ Len(results[i].targeted) = 2
    /\ registered = {}

\* C20: a release asks for at most one removal token, and only when the
\* filter has kept a runner and the release goes on to the runners; every
\* unregister and delete follows a token that was issued; when the token is
\* not issued no runner is unregistered or deleted and the run ends with
\* exit code 1, every filtered runner counted as a failure when the
\* directory refused the token.
C20_OneRemovalToken ==
    mode = "release" =>
        /\ Cardinality(CallsOfKind("token")) <= 1
        /\ CallsOfKind("token") # {} =>
             /\ Listed
             /\ survivors # {}
             /\ force \/ survivors \cap busyAtListing = {}
        /\ (CallsOfKind("ssh") \cup CallsOfKind("delete") # {} \/ unregCmd # {})
           => \E j \in CallsOfKind("token") :
                 /\ calls[j].answer = "201"
                 /\ \A k \in CallsOfKind("ssh") \cup CallsOfKind("delete") : j < k
        /\ \A j \in CallsOfKind("token") :
             calls[j].answer # "201" =>
                /\ unregCmd = {} /\ apiDeleted = {}
                /\ pc = "done" /\ exitCode = 1
                /\ exitWhy \in {"failures", "uncaught"}
                /\ exitWhy = "failures" =>
                     /\ failure_count = Cardinality(survivors)
                     /\ success_count = 0

\* A release of two runners that was refused the removal token
C20_Witness ==
    /\ mode = "release" /\ pc = "done" /\ exitCode = 1
    /\ \E j \in CallsOfKind("token") : calls[j].answer = "401"
    /\ Cardinality(survivors) = 2 /\ failure_count = 2
    /\ unregCmd = {} /\ apiDeleted = {}

\* C21: register_runner returns false when the configuration command fails;
\* when the configuration command succeeds it returns true whatever the
\* service commands did, on linux and on windows machines alike: no machine
\* is configured and yet answered as failed.
C21_ServiceFailureIsWarning ==
    mode = "reconcile" =>
        \A i \in CallsOfKind("ssh") : calls[i].answer \in {"registered", "failed"}

\* The runners of the directory that carry one of the tags and run the
\* platform's operating system
MatchingSet(maas_tags, platform) ==
    { j \in DOMAIN directory :
        /\ Range(maas_tags) \cap Range(directory[j].labels) # {}
        /\ OsOfPlatform(platform, directory[j].os) }

\* C22: for every directory and every tag list, the empty one included,
\* get_current_runners counts exactly the runners that share a tag with the
\* list and run the platform's operating system, the busy ones among them
\* as busy, and busy_count + idle_count = connected_count.
C22_StatusCountsMatching ==
    \A sh \in ReqShapes :
        LET status == get_current_runners(directory, sh[1], sh[2])
            matching == MatchingSet(sh[1], sh[2])
        IN  /\ status.connected_count = Cardinality(matching)
            /\ status.busy_count = Cardinality({ j \in matching : directory[j].busy })
            /\ status.busy_count + status.idle_count = status.connected_count

\* The planner has counted two runners, one busy and one idle, for one
\* requirement and none for a requirement of the other platform whose tags
\* the same runners carry
C22_Witness ==
    /\ AsPlanned /\ pc = "execute" /\ Len(actions) = 2
    /\ actions[1].reason[2] = 2
    /\ LET status == get_current_runners(directory, requirements[1].maas_tags,
                                         requirements[1].platform)
       IN  status.busy_count = 1 /\ status.idle_count = 1
    /\ requirements[2].platform = "windows"
    /\ actions[2].reason[2] = 0
    /\ \E j \in DOMAIN directory :
         Range(requirements[2].maas_tags) \cap Range(directory[j].labels) # {}

\* C23: get_all_registered_runners and get_all_registered_runner_names ask
\* for the pages 1, 2, ... in order and stop at the first page shorter than
\* per_page; on a directory that stays as it is they return every runner
\* exactly once, in the directory's order, also for no runner and for a
\* number of runners that is a multiple of per_page; the list a release
\* without filter works on is that listing.
C23_ListingFollowsPages ==
    LET pages == PagesRequested(directory, 1)
        listing == get_all_registered_runners(directory)
    IN  /\ pages = [i \in 1..(Len(directory) \div per_page + 1) |-> i]
        /\ \A i \in DOMAIN pages :
             (Len(Page(directory, pages[i])) < per_page) <=> (i = Len(pages))
        /\ listing = [i \in DOMAIN directory |-> ParseRunner(directory[i])]
        /\ get_all_registered_runner_names(directory) =
               {directory[i].name : i \in DOMAIN directory}
        /\ (mode = "release" /\ pc = "release_token" /\ hostnames = <<>> /\ prefix = <<>>)
           => /\ Len(runners) = Cardinality(listedIds)
              /\ {runners[i].id : i \in DOMAIN runners} = listedIds

\* A release without filter has listed a directory of per_page runners: the
\* listing took a second, empty page
C23_Witness ==
    /\ mode = "release" /\ pc = "release_token" /\ hostnames = <<>> /\ prefix = <<>>
    /\ Cardinality(listedIds) = per_page
    /\ Len(runners) = per_page
    /\ Len(directory) = per_page
    /\ PagesRequested(directory, 1) = <<1, 2>>
    /\ Page(directory, 2) = <<>>

\* C24: once the planner has read the status of every requirement, the
\* number of runners of the directory that match a requirement's tags and
\* platform never exceeds the larger of the requirement's max_count and the
\* number the planner counted for it, whatever the requirements (those that
\* share tags included) and whatever the pool.
C24_NeverAboveTarget ==
    (mode = "reconcile" /\ Planned) =>
        \A i \in DOMAIN requirements :
            \/ ConnectedNow(requirements[i]) <= requirements[i].max_count
            \/ ConnectedNow(requirements[i]) <= actions[i].reason[2]

\* The registration commands issued for the action at i, the hostnames the
\* pool lookup gives for its requirement, and the listing the action read
RegistrationCalls(i) == SelectSeq(calls, LAMBDA c : c.kind = "ssh" /\ c.at = i)
LookedUp(i) ==
    Range(Hostnames(get_available_machines_from_pool(
              pool, actions[i].requirement.maas_tags, actions[i].requirement.platform)))
ListedFor(i) == IF i \in DOMAIN results THEN results[i].listed ELSE registered_runner_names

\* C25: one add action issues registration commands to at most action.count
\* machines, no two of them to the same machine, each to a machine the pool
\* lookup returns for the action's requirement and that is not in the
\* listing the action read, and so to no more machines than the
\* already-registered filter left; an action that is no add issues none.
C25_AtMostCountRegistrations ==
    mode = "reconcile" =>
        \A i \in DOMAIN actions :
            LET ssh == RegistrationCalls(i)
                left == LookedUp(i) \ ListedFor(i)
            IN  /\ Len(ssh) <= actions[i].count
                /\ \A a, b \in DOMAIN ssh : a # b => ssh[a].host # ssh[b].host
                /\ \A a \in DOMAIN ssh : ssh[a].host \in left
                /\ Len(ssh) <= Cardinality(left)
                /\ i \in DOMAIN results =>
                     /\ Cardinality(results[i].attempted) <= actions[i].count
                     /\ results[i].attempted \subseteq left
                /\ (pc = "register" /\ i = idx) =>
                     /\ Len(machines_to_allocate) <= actions[i].count
                     /\ Range(Hostnames(machines_to_allocate)) \subseteq left

\* An add of one machine is over: the filter had left two machines and one
\* registration command was issued
C25_Witness ==
    /\ mode = "reconcile" /\ results # <<>>
    /\ results[1].kind = "add" /\ actions[1].count = 1
    /\ Cardinality(LookedUp(1) \ results[1].listed) = 2
    /\ Len(RegistrationCalls(1)) = 1
    /\ Cardinality(results[1].attempted) = 1

\* The finished actions that were answered with one of the reasons
ResultsWith(reasons) == {i \in DOMAIN results : results[i].reason \in reasons}

\* C26: an add action that ends partial, some machine registered and some
\* machine failed, is answered as ok and counted as a success and not as a
\* failure; a run whose actions all ended as success, partial, skipped or
\* pool_exhausted has no failure and, when it reaches its end, exits 0.
C26_PartialIsSuccess ==
    mode = "reconcile" =>
        /\ \A i \in ResultsWith({"partial"}) :
             /\ results[i].kind = "add" /\ results[i].ok
             /\ results[i].regOk # {}
             /\ results[i].attempted \ results[i].regOk # {}
        /\ success_count = Cardinality(ResultsWith({"success", "partial"}))
        /\ failure_count = Cardinality(ResultsWith({"error"}))
        /\ (pc = "done" /\ exitWhy \in {"ok", "failures"} /\ ResultsWith({"error"}) = {})
           => exitCode = 0

\* A run whose only add ended partial has exited 0
C26_Witness ==
    /\ mode = "reconcile" /\ pc = "done" /\ exitCode = 0
    /\ ResultsWith({"partial"}) # {}
    /\ success_count = 1 /\ failure_count = 0
    /\ \E i \in ResultsWith({"partial"}) :
         Cardinality(results[i].regOk) = 1 /\ Cardinality(results[i].attempted) = 2

\* C27: a release that has read the listing and returns its counts returns
\* a success count and a failure count that add up to the number of runners
\* the filter kept: every such runner is counted once, as released or as
\* failed.
C27_EverySurvivorCounted ==
    (mode = "release" /\ Listed /\ pc = "done" /\ exitWhy \in {"ok", "failures"})
        => success_count + failure_count = Cardinality(survivors)

ExecutionCalls == {j \in DOMAIN calls : calls[j].kind \in {"pool", "listing", "token", "ssh"}}

\* C29: a reconciliation executes its first action only after the status
\* of every requirement has been read: the first calls of the run are the
\* status checks, one for each requirement, and while they go on nothing is
\* executed; a status check that fails ends the run with exit code 1, with
\* no pool lookup, no listing, no token request, no registration command and
\* no action counted.
C29_PlanningAllOrNothing ==
    mode = "reconcile" =>
        /\ (ExecutionCalls # {} \/ results # <<>> \/ Planned) =>
             /\ Len(actions) = Len(requirements)
             /\ Len(calls) >= Len(requirements)
             /\ \A j \in 1..Len(requirements) :
                  calls[j].kind = "status" /\ calls[j].answer = "200"
             /\ \A j \in ExecutionCalls : j > Len(requirements)
        /\ pc = "plan" =>
             /\ ExecutionCalls = {} /\ results = <<>> /\ registered = {}
             /\ \A j \in DOMAIN calls : calls[j].kind = "status"
        /\ exitWhy = "status_error" =>
             /\ pc = "done" /\ exitCode = 1
             /\ calls # <<>> /\ Len(calls) <= Len(requirements)
             /\ \A j \in DOMAIN calls :
                  /\ calls[j].kind = "status"
                  /\ (calls[j].answer # "200") <=> (j = Len(calls))
             /\ ExecutionCalls = {} /\ results = <<>> /\ registered = {}
             /\ success_count = 0 /\ failure_count = 0 /\ pool_exhausted_count = 0

\* The status of the first of two requirements was read, an add with a
\* machine in the pool was planned for it, the status check of the second
\* failed: the run has exited 1 and has looked nothing up
C29_Witness ==
    /\ mode = "reconcile" /\ Len(requirements) = 2
    /\ pc = "done" /\ exitWhy = "status_error" /\ exitCode = 1
    /\ Len(calls) = 2 /\ calls[1].answer = "200" /\ calls[2].answer # "200"
    /\ Len(actions) = 1 /\ actions[1].action = "add"
    /\ ~ NoCandidate(requirements[1])
    /\ ExecutionCalls = {}

\* C30: a requirement with no tag never causes a registration: the planner
\* counts no runner for it, plans an add of max_count machines when
\* max_count > 0 (and nothing otherwise), the pool lookup gives no machine
\* for it, and its add ends as pool_exhausted at the lookup, with no listing,
\* no token request and no registration command.
C30_EmptyTagsNeverRegister ==
    mode = "reconcile" =>
        \A i \in DOMAIN actions :
            LET req == actions[i].requirement
            IN  req.maas_tags = <<>> =>
                  /\ actions[i].reason[2] = 0
                  /\ actions[i].action = (IF req.max_count > 0 THEN "add" ELSE "none")
                  /\ actions[i].count = req.max_count
                  /\ get_available_machines_from_pool(pool, req.maas_tags, req.platform) = <<>>
                  /\ \A j \in DOMAIN calls : calls[j].at = i => calls[j].kind = "pool"
                  /\ pc \in {"token", "register"} => idx # i
                  /\ (i \in DOMAIN results /\ req.max_count > 0) =>
                       /\ results[i].ok /\ results[i].reason = "pool_exhausted"
                       /\ results[i].stage = "lookup"
                       /\ results[i].attempted = {} /\ results[i].listed = {}

\* The add of two machines for a requirement with no tag has ended as
\* pool_exhausted, with runners in the directory and machines in the pool
C30_Witness ==
    /\ mode = "reconcile" /\ results # <<>>
    /\ requirements[1].maas_tags = <<>> /\ requirements[1].max_count = 2
    /\ actions[1].action = "add" /\ actions[1].count = 2
    /\ results[1].reason = "pool_exhausted"
    /\ Len(directory) = 2
    /\ \E k \in DOMAIN pool :
         pool[k].status = "available" /\ pool[k].platform = requirements[1].platform
    /\ pool_exhausted_count >= 1

====
